---- MODULE Spec2Model ----
(***************************************************************************)
(* Device session protocol of PhoneCommander: the TCP server that accepts  *)
(* agent connections (server/services/tcp-server.ts), the device manager   *)
(* that listens to it (server/services/device-manager.ts) and the storage  *)
(* they await (server/storage.ts).                                         *)
(*                                                                         *)
(* Bytes are one-character strings; a frame on the wire is a sequence of   *)
(* them ending in "\n".  A JSON object is abstracted as "{", a type        *)
(* letter, opaque text, "}".  Time is counted in milliseconds and moves    *)
(* in steps of one sweep period; a lastHeartbeat field holds the elapsed   *)
(* time now - lastHeartbeat.  Only the sweeper reads lastHeartbeat, and it  *)
(* reads it through TCPServer.connections, so the field is kept with the   *)
(* entry of that map.  Suspended async calls are kept in bags: the order   *)
(* in which they were started is not part of the program's state.          *)
(***************************************************************************)
EXTENDS Integers, Sequences, FiniteSets, Bags, TLC

\* ---------------------------------------------------------------- bounds
MaxConns == 2
MaxPkg == 1
MaxSend == 2
MaxPending == 2
MaxObservers == 3
MaxInfo == 3
MaxBuilds == 2

\* ------------------------------------------------------ program constants
HeartbeatTimeout == 30000
SweepPeriod == 10000
RemoveDelay == 60000
HeartbeatInterval == 10000

Conns == 1..MaxConns
Observers == 1..MaxObservers
Builds == 1..MaxBuilds
PkgChars == <<"1", "2", "3">>
Packages == {PkgChars[i] : i \in 1..MaxPkg}
DeviceIds == 1..MaxInfo
CommandTypes == {"touch", "key", "text", "quick_action", "screenshot",
                 "swipe", "long_press", "drag"}

OutboundTypes == {"command_response", "request_screen", "error"}
NL == "\n"
HttpGet == <<"G", "E", "T", " ">>
HttpPost == <<"P", "O", "S", "T", " ">>
HttpVersion == <<"H", "T", "T", "P", "/">>

\* ---------------------------------------------------------- wire records
InfoRecord(p) == <<"{", "i", p, "}">>
HeartbeatRecord == <<"{", "h", "}">>
ScreenRecord == <<"{", "s", "}">>
ResponseRecord == <<"{", "r", "}">>
GarbageRecord == <<"x">>
QuotedGetRecord == <<"{", "h", "G", "E", "T", " ", "}">>
HttpRecord == <<"G", "E", "T", " ", "/">>

\* ------------------------------------------------------- string functions
StartsWith(s, p) == Len(s) >= Len(p) /\ SubSeq(s, 1, Len(p)) = p

IsHttp(dataStr) ==
    StartsWith(dataStr, HttpGet) \/ StartsWith(dataStr, HttpPost)
        \/ StartsWith(dataStr, HttpVersion)

IsSpace(ch) == ch \in {" ", "\r", "\t", NL}

RECURSIVE TrimLeft(_)
TrimLeft(s) ==
    IF s = <<>> THEN <<>>
    ELSE IF IsSpace(Head(s)) THEN TrimLeft(Tail(s)) ELSE s

RECURSIVE TrimRight(_)
TrimRight(s) ==
    IF s = <<>> THEN <<>>
    ELSE IF IsSpace(s[Len(s)]) THEN TrimRight(SubSeq(s, 1, Len(s) - 1)) ELSE s

Trim(s) == TrimRight(TrimLeft(s))

\* buffer.split('\n'): the pieces between newlines, the last one unterminated
RECURSIVE SplitNewline(_, _)
SplitNewline(s, cur) ==
    IF s = <<>> THEN <<cur>>
    ELSE IF Head(s) = NL THEN <<cur>> \o SplitNewline(Tail(s), <<>>)
    ELSE SplitNewline(Tail(s), Append(cur, Head(s)))

Split(s) == SplitNewline(s, <<>>)

\* JSON.parse succeeds on an object literal and throws on anything else
JsonParses(t) ==
    /\ Len(t) >= 2
    /\ t[1] = "{"
    /\ t[Len(t)] = "}"
    /\ \A i \in 2..(Len(t) - 1) : t[i] \notin {"{", "}"}

MessageType(t) ==
    IF Len(t) < 3 THEN "undefined"
    ELSE IF t[2] = "i" THEN "device_info"
    ELSE IF t[2] = "h" THEN "heartbeat"
    ELSE IF t[2] = "s" THEN "screen_data"
    ELSE IF t[2] = "r" THEN "command_response"
    ELSE "unknown"

PackageName(t) == t[3]

VARIABLES
    sock,              \* per socket: "fresh", "open", "ended", "closing", "closed"
    wire,              \* per socket: bytes the agent has sent and the server has not read
    buffer,            \* per socket: handleConnection's buffer
    deviceConnection,  \* per socket: handleConnection's deviceConnection
    connections,       \* TCPServer.connections
    screenUpdateInterval, \* TCPServer.screenUpdateInterval
    timers,            \* per device id, the running intervals of startScreenCapture
    handlers,          \* data handlers suspended inside authenticateDevice
    disconnections,    \* handleDisconnection calls suspended at an await
    dbDevices,         \* storage: devices rows, most recently seen first
    dbSessions,        \* storage: sessions rows
    devices,           \* DeviceManager.devices
    removals,          \* pending setTimeout removals of unregisterDevice
    managed,           \* whether a DeviceManager has put its listeners on the server
    webSocketClients,  \* DeviceManager.webSocketClients, in insertion order
    readyState,        \* per WebSocket: "NEW", "OPEN", "CLOSING", "CLOSED"
    failed,            \* history: WebSockets whose send has thrown in a broadcast
    lastBroadcast,     \* history: what the last broadcastToWebClients did
    stopped,           \* TCPServer.stop() has returned
    buildStatus,       \* storage: buildStatus of the APK configuration row
    apkPath,           \* storage: whether apkPath of the row is set
    build,             \* per buildAPK invocation: where it stands, whether it set "building"
    progress,          \* history: per invocation, the events given to onProgress
    tracing,           \* whether the histories of records are kept
    parseFailures,     \* history: per socket, the JSON.parse calls that threw
    handled,           \* history: per socket, the records given to handleMessage
    sends,             \* number of records the agents have sent
    sent,              \* history: per socket, the records the agent sent
    dispatched,        \* history: per socket, the records parsed and dispatched
    evicted,           \* history: sockets the sweeper destroyed
    broadcasts,        \* history: messages given to broadcastToWebClients
    wrote,             \* frames written to sockets by the last step
    emitted,           \* TCPServer events emitted by the last step
    lastRoute,         \* the last routed command and its result
    variant,           \* Android client: which TCPClient class runs, 0 before connect()
    clientIsConnected, \* Android client: TCPClient.isConnected
    shouldReconnect,   \* Android client: TCPClient.shouldReconnect
    executor,          \* Android client: tasks of the single-thread executor, running one first
    mainHandler,       \* Android client: delayed reconnect runnables posted to mainHandler
    link,              \* Android client: its socket, "none", "up", "eof", "reset", "closed"
    established,       \* Android client: connections established so far
    infoSent,          \* history: the connection whose device_info was written last
    lost,              \* history: the connection that was lost last, 0 if none
    explicit           \* history: the application has called disconnect()

bldVars == <<buildStatus, apkPath, build, progress>>

vars == <<sock, wire, buffer, deviceConnection, connections,
          screenUpdateInterval, timers, handlers, disconnections,
          dbDevices, dbSessions, devices, removals, tracing, stopped, bldVars, sends, sent,
          dispatched, evicted, broadcasts, wrote, emitted, lastRoute,
          managed, parseFailures, handled, webSocketClients, readyState, failed,
          lastBroadcast, variant, clientIsConnected, shouldReconnect, executor,
          mainHandler, link, established, infoSent, lost, explicit>>

cliVars == <<variant, clientIsConnected, shouldReconnect, executor, mainHandler,
             link, established, infoSent, lost, explicit>>

obsVars == <<webSocketClients, readyState, failed, lastBroadcast>>

NoRoute == [deviceId |-> 0, result |-> FALSE, bound |-> FALSE]

NoBroadcast == [attempted |-> <<>>, delivered |-> <<>>, threw |-> {},
                deleted |-> {}, open |-> {}, raised |-> FALSE]

tcpServerVars == <<sock, wire, buffer, deviceConnection, connections,
             screenUpdateInterval, timers, handlers, disconnections,
             dbDevices, dbSessions, devices, removals, tracing, stopped, sends, sent,
             dispatched, evicted, broadcasts, wrote, emitted, lastRoute,
             managed, parseFailures, handled>>

tcpVars == <<sock, wire, buffer, deviceConnection, connections,
             screenUpdateInterval, timers, handlers, disconnections,
             dbDevices, dbSessions, devices, removals, tracing, stopped, bldVars, sends, sent,
             dispatched, evicted, broadcasts, wrote, emitted, lastRoute,
             managed, parseFailures, handled>>

Start ==
    /\ sock = [c \in Conns |-> "fresh"]
    /\ wire = [c \in Conns |-> <<>>]
    /\ buffer = [c \in Conns |-> <<>>]
    /\ deviceConnection = [c \in Conns |-> 0]
    /\ connections = <<>>
    /\ screenUpdateInterval = {}
    /\ timers = [d \in DeviceIds |-> 0]
    /\ handlers = EmptyBag
    /\ disconnections = EmptyBag
    /\ dbDevices = <<>>
    /\ dbSessions = <<>>
    /\ devices = <<>>
    /\ removals = <<>>
    /\ sends = 0
    /\ sent = [c \in Conns |-> <<>>]
    /\ dispatched = [c \in Conns |-> <<>>]
    /\ evicted = {}
    /\ stopped = FALSE
    /\ buildStatus = "idle"
    /\ apkPath = FALSE
    /\ build = [n \in Builds |-> [pc |-> "none", began |-> FALSE]]
    /\ progress = [n \in Builds |-> <<>>]
    /\ broadcasts = <<>>
    /\ wrote = <<>>
    /\ emitted = <<>>
    /\ lastRoute = NoRoute
    /\ parseFailures = [c \in Conns |-> 0]
    /\ handled = [c \in Conns |-> <<>>]
    /\ webSocketClients = <<>>
    /\ readyState = [o \in Observers |-> "NEW"]
    /\ failed = {}
    /\ lastBroadcast = NoBroadcast
    /\ variant = 0
    /\ clientIsConnected = FALSE
    /\ shouldReconnect = TRUE
    /\ executor = <<>>
    /\ mainHandler = 0
    /\ link = "none"
    /\ established = 0
    /\ infoSent = 0
    /\ lost = 0
    /\ explicit = FALSE

\* registerRoutes: the server is started and a DeviceManager is put on it
Init == Start /\ tracing = FALSE /\ managed = TRUE

\* ------------------------------------------------------------- TCPServer
\* one call of socket.write or socket.end with the bytes it is given
Write(c, type, bytes) == [socket |-> c, type |-> type, bytes |-> bytes]

\* JSON.stringify of a message object: one object literal, in which a line
\* break can only stand escaped
Stringify(type) == <<"{", type, "}">>

\* the text of the HTTP answer, which holds two line breaks
HttpAnswer == <<"H", "T", "T", "P", "/", NL, NL, "T">>

Frame(c, type) == Write(c, type, Stringify(type) \o <<NL>>)

\* a sendMessage that writes the JSON text and the newline in two writes
sendMessageInTwoWrites(c, type) ==
    <<Write(c, type, Stringify(type)), Write(c, type, <<NL>>)>>

\* sendMessage: one socket.write of the JSON text and a newline
sendMessage(c, type) == <<Frame(c, type)>>

Put(f, k, v) == [x \in (DOMAIN f) \cup {k} |-> IF x = k THEN v ELSE f[x]]

Without(bag, r) == bag (-) SetToBag({r})

With(bag, r) == bag (+) SetToBag({r})

Event(type, deviceId) == [type |-> type, deviceId |-> deviceId]

Broadcast(type, deviceId, c) == [type |-> type, deviceId |-> deviceId, socket |-> c]

\* a handleMessage that emits an event for a frame of any type
HandledLoud(acc, t) ==
    [acc EXCEPT !.touched = TRUE, !.handled = Append(@, t),
                !.events = Append(@, MessageType(t))]

\* handleMessage for one frame: lastHeartbeat is set, and the switch emits
\* an event for screen_data and command_response
Handled(acc, t) ==
    [acc EXCEPT !.touched = TRUE, !.handled = Append(@, t),
                !.events = IF MessageType(t) \in {"screen_data", "command_response"}
                           THEN Append(@, MessageType(t)) ELSE @]

\* a data handler that gives every frame to handleMessage
DispatchAlways(authed, acc, t) == Handled(acc, t)

\* the else branch of the data handler: a frame goes to handleMessage when
\* the connection is authenticated and is dropped otherwise
Dispatch(authed, acc, t) == IF authed THEN Handled(acc, t) ELSE acc

\* The for loop of the data handler over the split lines, up to the first
\* await inside authenticateDevice, the first exception, or the last line.
RECURSIVE RunLines(_, _, _)
RunLines(lines, authed, acc) ==
    IF lines = <<>> THEN [acc EXCEPT !.outcome = "done"]
    ELSE LET t == Trim(Head(lines)) IN
        IF t = <<>> THEN RunLines(Tail(lines), authed, acc)
        ELSE IF ~JsonParses(t) THEN [acc EXCEPT !.outcome = "throw"]
        ELSE LET seen == [acc EXCEPT !.parsed = Append(@, t)] IN
            IF MessageType(t) = "device_info" /\ ~authed
            THEN [seen EXCEPT !.outcome = "await", !.line = t, !.rest = Tail(lines)]
            ELSE RunLines(Tail(lines), authed, Dispatch(authed, seen, t))

NoRun == [outcome |-> "done", parsed |-> <<>>, handled |-> <<>>, events |-> <<>>,
          touched |-> FALSE, line |-> <<>>, rest |-> <<>>]

\* a handleMessage that leaves lastHeartbeat as it is
handleMessageIdle(c) == connections

\* handleMessage sets lastHeartbeat on the DeviceConnection object of the
\* socket, which is the value of connections under its id when that entry
\* was made for this socket
handleMessage(c) ==
    LET id == deviceConnection[c] IN
    IF id \in DOMAIN connections /\ connections[id].socket = c
    THEN [connections EXCEPT ![id].lastHeartbeat = 0]
    ELSE connections

\* DeviceManager.updateDeviceScreen, the listener of "screen_data"
updateDeviceScreen(devs, deviceId) ==
    IF deviceId \in DOMAIN devs
    THEN <<Broadcast("screen_update", deviceId, 0)>>
    ELSE <<>>

RECURSIVE ScreenBroadcasts(_, _, _)
ScreenBroadcasts(events, devs, deviceId) ==
    IF events = <<>> THEN <<>>
    ELSE (IF Head(events) = "screen_data" THEN updateDeviceScreen(devs, deviceId)
          ELSE <<>>) \o ScreenBroadcasts(Tail(events), devs, deviceId)

Pending(c, run) ==
    [socket |-> c, pc |-> "getDevices", packageName |-> PackageName(run.line),
     device |-> 0, rest |-> run.rest]

\* socket.on("data"): one data event carrying the first k unread bytes
OnData(c, k) ==
    /\ sock[c] \in {"open", "ended"}
    /\ k \in 1..Len(wire[c])
    /\ LET dataStr == SubSeq(wire[c], 1, k)
           lines == Split(buffer[c] \o dataStr)
           run == RunLines(SubSeq(lines, 1, Len(lines) - 1),
                           deviceConnection[c] # 0, NoRun)
       IN
       /\ wire' = [wire EXCEPT ![c] = SubSeq(@, k + 1, Len(@))]
       /\ IF IsHttp(dataStr)
          THEN /\ sock' = [sock EXCEPT ![c] = "ended"]
               /\ wrote' = <<Write(c, "http_400", HttpAnswer)>>
               /\ emitted' = <<>>
               /\ UNCHANGED <<buffer, connections, handlers, dispatched, broadcasts,
                              parseFailures, handled>>
          ELSE /\ buffer' = [buffer EXCEPT ![c] = lines[Len(lines)]]
               /\ dispatched' = IF tracing
                                THEN [dispatched EXCEPT ![c] = @ \o run.parsed]
                                ELSE dispatched
               /\ connections' = IF run.touched THEN handleMessage(c) ELSE connections
               /\ emitted' = [i \in 1..Len(run.events) |->
                                Event(run.events[i], deviceConnection[c])]
               /\ broadcasts' = broadcasts \o
                        ScreenBroadcasts(run.events, devices, deviceConnection[c])
               /\ wrote' = IF run.outcome = "throw" THEN sendMessage(c, "error") ELSE <<>>
               /\ parseFailures' = IF tracing /\ run.outcome = "throw"
                                   THEN [parseFailures EXCEPT ![c] = @ + 1]
                                   ELSE parseFailures
               /\ handled' = IF tracing
                             THEN [handled EXCEPT ![c] = @ \o run.handled]
                             ELSE handled
               /\ run.outcome = "await" => BagCardinality(handlers) < MaxPending
               /\ handlers' = IF run.outcome = "await"
                              THEN With(handlers, Pending(c, run)) ELSE handlers
               /\ UNCHANGED sock
    /\ lastRoute' = NoRoute
    /\ UNCHANGED <<deviceConnection, screenUpdateInterval, timers, disconnections,
                   dbDevices, dbSessions, devices, removals, tracing, stopped, bldVars, managed,
                   obsVars, cliVars, sends, sent, evicted>>

Quiet == /\ wrote' = <<>>
         /\ emitted' = <<>>
         /\ lastRoute' = NoRoute

\* a new TCP connection: handleConnection installs the handlers
Connect(c) ==
    /\ ~stopped
    /\ sock[c] = "fresh"
    /\ sock' = [sock EXCEPT ![c] = "open"]
    /\ Quiet
    /\ UNCHANGED <<wire, buffer, deviceConnection, connections,
                   screenUpdateInterval, timers, handlers, disconnections,
                   dbDevices, dbSessions, devices, removals, tracing, stopped, bldVars, managed, parseFailures, handled, obsVars, cliVars, sends,
                   sent, dispatched, evicted, broadcasts>>

\* the agent writes one record and its newline
AgentSend(c, record) ==
    /\ sock[c] \in {"open", "ended"}
    /\ sends < MaxSend
    /\ sends' = sends + 1
    /\ wire' = [wire EXCEPT ![c] = @ \o record \o <<NL>>]
    /\ sent' = IF tracing THEN [sent EXCEPT ![c] = Append(@, record)] ELSE sent
    /\ Quiet
    /\ UNCHANGED <<sock, buffer, deviceConnection, connections,
                   screenUpdateInterval, timers, handlers, disconnections,
                   dbDevices, dbSessions, devices, removals, tracing, stopped, bldVars, managed, parseFailures, handled, obsVars, cliVars,
                   dispatched, evicted, broadcasts>>

\* ------------------------------------------------------------- storage
\* devices.find(d => d.packageName === p) over getDevices(), which orders
\* the rows by lastSeen, latest first
RECURSIVE FindPackage(_, _)
FindPackage(rows, p) ==
    IF rows = <<>> THEN 0
    ELSE IF Head(rows).packageName = p THEN Head(rows).id
    ELSE FindPackage(Tail(rows), p)

\* storage.createDevice: a new row under a fresh id
createDevice(rows, p) ==
    <<[id |-> Len(rows) + 1, packageName |-> p, isConnected |-> TRUE]>> \o rows

\* storage.updateDevice: sets the field and lastSeen of the row, if there is one
updateDevice(rows, id, isConnected) ==
    LET hit == SelectSeq(rows, LAMBDA r : r.id = id) IN
    IF hit = <<>> THEN rows
    ELSE <<[hit[1] EXCEPT !.isConnected = isConnected]>>
            \o SelectSeq(rows, LAMBDA r : r.id # id)

\* storage.getSessionsByDevice, filtered by the isActive test of its caller
RECURSIVE ActiveSessionsFrom(_, _, _)
ActiveSessionsFrom(rows, deviceId, i) ==
    IF i > Len(rows) THEN <<>>
    ELSE (IF rows[i].deviceId = deviceId /\ rows[i].isActive THEN <<i>> ELSE <<>>)
            \o ActiveSessionsFrom(rows, deviceId, i + 1)

ActiveSessions(rows, deviceId) == ActiveSessionsFrom(rows, deviceId, 1)

\* ----------------------------------------------------- authenticateDevice
\* await storage.getDevices() resolves; find() picks the row of the package
AuthGetDevices(h) ==
    /\ h.pc = "getDevices"
    /\ LET id == FindPackage(dbDevices, h.packageName) IN
       handlers' = With(Without(handlers, h),
                        [h EXCEPT !.device = id,
                                  !.pc = IF id = 0 THEN "createDevice"
                                         ELSE "updateDevice"])
    /\ Quiet
    /\ UNCHANGED <<sock, wire, buffer, deviceConnection, connections,
                   screenUpdateInterval, timers, disconnections, dbDevices,
                   dbSessions, devices, removals, tracing, stopped, bldVars, managed, parseFailures, handled, obsVars, cliVars, sends, sent,
                   dispatched, evicted, broadcasts>>

\* await storage.createDevice(...) resolves
AuthCreateDevice(h) ==
    /\ h.pc = "createDevice"
    /\ dbDevices' = createDevice(dbDevices, h.packageName)
    /\ handlers' = With(Without(handlers, h),
                        [h EXCEPT !.device = Len(dbDevices) + 1,
                                  !.pc = "createSession"])
    /\ Quiet
    /\ UNCHANGED <<sock, wire, buffer, deviceConnection, connections,
                   screenUpdateInterval, timers, disconnections, dbSessions,
                   devices, removals, tracing, stopped, bldVars, managed, parseFailures, handled, obsVars, cliVars, sends, sent, dispatched,
                   evicted, broadcasts>>

\* await storage.updateDevice(device.id, {isConnected: true, ...}) resolves
AuthUpdateDevice(h) ==
    /\ h.pc = "updateDevice"
    /\ dbDevices' = updateDevice(dbDevices, h.device, TRUE)
    /\ handlers' = With(Without(handlers, h), [h EXCEPT !.pc = "createSession"])
    /\ Quiet
    /\ UNCHANGED <<sock, wire, buffer, deviceConnection, connections,
                   screenUpdateInterval, timers, disconnections, dbSessions,
                   devices, removals, tracing, stopped, bldVars, managed, parseFailures, handled, obsVars, cliVars, sends, sent, dispatched,
                   evicted, broadcasts>>

\* await storage.createSession({deviceId, isActive: true}) resolves
AuthCreateSession(h) ==
    /\ h.pc = "createSession"
    /\ dbSessions' = Append(dbSessions, [deviceId |-> h.device, isActive |-> TRUE])
    /\ handlers' = With(Without(handlers, h), [h EXCEPT !.pc = "createActivityLog"])
    /\ Quiet
    /\ UNCHANGED <<sock, wire, buffer, deviceConnection, connections,
                   screenUpdateInterval, timers, disconnections, dbDevices,
                   devices, removals, tracing, stopped, bldVars, managed, parseFailures, handled, obsVars, cliVars, sends, sent, dispatched,
                   evicted, broadcasts>>

\* --------------------------------------------------------- DeviceManager
\* The "device_connected" listener takes (deviceId, deviceInfo); the server
\* emits the event with the device id alone, so deviceInfo is undefined.
EmittedDeviceInfo == "undefined"

\* registerDevice reads deviceData.name first: a TypeError when deviceData is
\* undefined, thrown through emit() into the data handler's try block
registerDeviceThrows(deviceData) == deviceData = "undefined"

\* registerDevice past the construction of the record: devices.set, the
\* device_connected broadcast and the devices list broadcast
registerDevice(deviceId, c) ==
    [devices |-> Put(devices, deviceId, [isConnected |-> TRUE]),
     broadcasts |-> <<Broadcast("device_connected", deviceId, c),
                      Broadcast("devices_update", 0, c)>>]

\* startScreenCapture: a new interval, stored under the id without clearing
\* the interval already stored there
startScreenCapture(deviceId) ==
    /\ timers' = [timers EXCEPT ![deviceId] = @ + 1]
    /\ screenUpdateInterval' = screenUpdateInterval \cup {deviceId}

\* await storage.createActivityLog(...) resolves: authenticateDevice sends the
\* authenticated reply and returns; the data handler binds the connection,
\* emits device_connected, starts the screen capture and goes on with the
\* remaining lines, unless a listener throws into its catch block. Without a
\* DeviceManager the events have no listener.
AuthReturn(h) ==
    /\ h.pc = "createActivityLog"
    /\ LET c == h.socket
           id == h.device
           run == RunLines(h.rest, TRUE, NoRun)
           reg == IF managed THEN registerDevice(id, c)
                  ELSE [devices |-> devices, broadcasts |-> <<>>]
       IN
       /\ deviceConnection' = [deviceConnection EXCEPT ![c] = id]
       /\ connections' = Put(connections, id, [socket |-> c, lastHeartbeat |-> 0])
       /\ handlers' = Without(handlers, h)
       /\ IF managed /\ registerDeviceThrows(EmittedDeviceInfo)
          THEN /\ wrote' = sendMessage(c, "command_response") \o sendMessage(c, "error")
               /\ emitted' = <<Event("device_connected", id)>>
               /\ UNCHANGED <<devices, broadcasts, timers, screenUpdateInterval,
                              dispatched, parseFailures, handled>>
          ELSE /\ devices' = reg.devices
               /\ broadcasts' = broadcasts \o reg.broadcasts \o
                                ScreenBroadcasts(run.events, reg.devices, id)
               /\ startScreenCapture(id)
               /\ dispatched' = IF tracing
                                THEN [dispatched EXCEPT ![c] = @ \o run.parsed]
                                ELSE dispatched
               /\ parseFailures' = IF tracing /\ run.outcome = "throw"
                                   THEN [parseFailures EXCEPT ![c] = @ + 1]
                                   ELSE parseFailures
               /\ handled' = IF tracing
                             THEN [handled EXCEPT ![c] = @ \o run.handled]
                             ELSE handled
               /\ emitted' = <<Event("device_connected", id)>> \o
                             [i \in 1..Len(run.events) |-> Event(run.events[i], id)]
               /\ wrote' = sendMessage(c, "command_response") \o
                           (IF run.outcome = "throw" THEN sendMessage(c, "error")
                            ELSE <<>>)
    /\ lastRoute' = NoRoute
    /\ UNCHANGED <<sock, wire, buffer, disconnections, dbDevices, dbSessions,
                   removals, tracing, stopped, bldVars, managed, obsVars, cliVars, sends, sent, evicted>>

\* unregisterDevice, the listener of "device_disconnected"
unregisterDevice(deviceId, c) ==
    IF deviceId \in DOMAIN devices
    THEN /\ devices' = [devices EXCEPT ![deviceId].isConnected = FALSE]
         /\ broadcasts' = broadcasts \o <<Broadcast("device_disconnected", deviceId, c),
                                          Broadcast("devices_update", 0, c)>>
         /\ removals' = Append(removals, [deviceId |-> deviceId, after |-> RemoveDelay])
    ELSE UNCHANGED <<devices, broadcasts, removals>>

\* TCPServer.sendCommandToDevice: the command object has a type of its own,
\* so it is written as it is
sendCommandToDevice(deviceId, type) ==
    IF deviceId \notin DOMAIN connections
    THEN [result |-> FALSE, wrote |-> <<>>]
    ELSE [result |-> TRUE, wrote |-> sendMessage(connections[deviceId].socket, type)]

\* sendCommand reporting success whatever the lookups say
sendCommandAlwaysTrue(deviceId, type) ==
    [result |-> TRUE, wrote |-> sendCommandToDevice(deviceId, type).wrote]

\* DeviceManager.sendCommand
sendCommand(deviceId, type) ==
    IF deviceId \in DOMAIN devices /\ devices[deviceId].isConnected
    THEN sendCommandToDevice(deviceId, type)
    ELSE [result |-> FALSE, wrote |-> <<>>]

\* POST /api/control/:deviceId with a command of one of the known types
Route(deviceId, type) ==
    /\ LET r == sendCommand(deviceId, type) IN
       /\ wrote' = r.wrote
       /\ lastRoute' = [deviceId |-> deviceId, result |-> r.result,
                        bound |-> deviceId \in DOMAIN connections]
    /\ emitted' = <<>>
    /\ UNCHANGED <<sock, wire, buffer, deviceConnection, connections,
                   screenUpdateInterval, timers, handlers, disconnections,
                   dbDevices, dbSessions, devices, removals, tracing, stopped, bldVars, managed, parseFailures, handled, obsVars, cliVars, sends,
                   sent, dispatched, evicted, broadcasts>>

\* ---------------------------------------------------- handleDisconnection
Suspended(deviceId, c) ==
    [deviceId |-> deviceId, socket |-> c, pc |-> "updateDevice", todo |-> <<>>]

\* a handleDisconnection that clears the whole registry
DisconnectingAll(gone) ==
    /\ connections' = <<>>
    /\ timers' = [d \in DeviceIds |->
                    IF d \in DOMAIN gone /\ d \in screenUpdateInterval
                    THEN timers[d] - 1 ELSE timers[d]]
    /\ screenUpdateInterval' = screenUpdateInterval \ (DOMAIN gone)
    /\ disconnections' = disconnections (+)
                            SetToBag({Suspended(d, gone[d]) : d \in DOMAIN gone})

\* The part of handleDisconnection before its first await, for each of the
\* connections `gone` (device id -> socket) disconnected in this step: the
\* binding and the interval stored under the id go, and storage.updateDevice
\* is awaited.
Disconnecting(gone) ==
    /\ connections' = [d \in (DOMAIN connections) \ (DOMAIN gone) |-> connections[d]]
    /\ timers' = [d \in DeviceIds |->
                    IF d \in DOMAIN gone /\ d \in screenUpdateInterval
                    THEN timers[d] - 1 ELSE timers[d]]
    /\ screenUpdateInterval' = screenUpdateInterval \ (DOMAIN gone)
    /\ disconnections' = disconnections (+)
                            SetToBag({Suspended(d, gone[d]) : d \in DOMAIN gone})

\* socket.on("close") and socket.on("error") both end in this
HandlerDisconnects(c) ==
    IF deviceConnection[c] # 0
    THEN Disconnecting([d \in {deviceConnection[c]} |-> c])
    ELSE UNCHANGED <<connections, timers, screenUpdateInterval, disconnections>>

\* socket.on("close")
SocketClose(c) ==
    /\ sock[c] \in {"open", "ended", "closing"}
    /\ sock' = [sock EXCEPT ![c] = "closed"]
    /\ wire' = [wire EXCEPT ![c] = <<>>]
    /\ HandlerDisconnects(c)
    /\ Quiet
    /\ UNCHANGED <<buffer, deviceConnection, handlers, dbDevices, dbSessions,
                   devices, removals, tracing, stopped, bldVars, managed, parseFailures, handled, obsVars, cliVars, sends, sent, dispatched, evicted,
                   broadcasts>>

\* socket.on("error"): the socket is destroyed and its close event follows
SocketError(c) ==
    /\ sock[c] \in {"open", "ended"}
    /\ sock' = [sock EXCEPT ![c] = "closing"]
    /\ wire' = [wire EXCEPT ![c] = <<>>]
    /\ HandlerDisconnects(c)
    /\ Quiet
    /\ UNCHANGED <<buffer, deviceConnection, handlers, dbDevices, dbSessions,
                   devices, removals, tracing, stopped, bldVars, managed, parseFailures, handled, obsVars, cliVars, sends, sent, dispatched, evicted,
                   broadcasts>>

\* await storage.updateDevice(deviceId, {isConnected: false}) resolves
DiscUpdateDevice(x) ==
    /\ x.pc = "updateDevice"
    /\ dbDevices' = updateDevice(dbDevices, x.deviceId, FALSE)
    /\ disconnections' = With(Without(disconnections, x),
                              [x EXCEPT !.pc = "getSessionsByDevice"])
    /\ Quiet
    /\ UNCHANGED <<sock, wire, buffer, deviceConnection, connections,
                   screenUpdateInterval, timers, handlers, dbSessions, devices,
                   removals, tracing, stopped, bldVars, managed, parseFailures, handled, obsVars, cliVars, sends, sent, dispatched, evicted,
                   broadcasts>>

\* await storage.getSessionsByDevice(deviceId) resolves
DiscGetSessions(x) ==
    /\ x.pc = "getSessionsByDevice"
    /\ LET todo == ActiveSessions(dbSessions, x.deviceId) IN
       disconnections' = With(Without(disconnections, x),
            [x EXCEPT !.todo = todo,
                      !.pc = IF todo = <<>> THEN "createActivityLog"
                             ELSE "endSession"])
    /\ Quiet
    /\ UNCHANGED <<sock, wire, buffer, deviceConnection, connections,
                   screenUpdateInterval, timers, handlers, dbDevices, dbSessions,
                   devices, removals, tracing, stopped, bldVars, managed, parseFailures, handled, obsVars, cliVars, sends, sent, dispatched, evicted,
                   broadcasts>>

\* await storage.endSession(session.id) resolves
DiscEndSession(x) ==
    /\ x.pc = "endSession"
    /\ dbSessions' = [dbSessions EXCEPT ![Head(x.todo)].isActive = FALSE]
    /\ disconnections' = With(Without(disconnections, x),
            [x EXCEPT !.todo = Tail(x.todo),
                      !.pc = IF Tail(x.todo) = <<>> THEN "createActivityLog"
                             ELSE "endSession"])
    /\ Quiet
    /\ UNCHANGED <<sock, wire, buffer, deviceConnection, connections,
                   screenUpdateInterval, timers, handlers, dbDevices, devices,
                   removals, tracing, stopped, bldVars, managed, parseFailures, handled, obsVars, cliVars, sends, sent, dispatched, evicted,
                   broadcasts>>

\* await storage.createActivityLog(...) resolves: device_disconnected is emitted
DiscFinish(x) ==
    /\ x.pc = "createActivityLog"
    /\ emitted' = <<Event("device_disconnected", x.deviceId)>>
    /\ unregisterDevice(x.deviceId, x.socket)
    /\ disconnections' = Without(disconnections, x)
    /\ wrote' = <<>>
    /\ lastRoute' = NoRoute
    /\ UNCHANGED <<sock, wire, buffer, deviceConnection, connections,
                   screenUpdateInterval, timers, handlers, dbDevices, dbSessions,
                   tracing, stopped, bldVars, managed, parseFailures, handled, obsVars, cliVars, sends, sent, dispatched, evicted>>

\* ------------------------------------------------------------- sweeper
\* One sweep period passes and the callback of startHeartbeatCheck runs:
\* every connection whose last frame is older than the timeout has its
\* socket destroyed and is disconnected.
HeartbeatCheck ==
    LET now == [d \in DOMAIN connections |-> connections[d].lastHeartbeat + SweepPeriod]
        late == {d \in DOMAIN connections : now[d] > HeartbeatTimeout}
        destroyed == {connections[d].socket : d \in late}
    IN
    /\ ~stopped
    /\ sock' = [c \in Conns |->
                    IF c \in destroyed /\ sock[c] \in {"open", "ended"}
                    THEN "closing" ELSE sock[c]]
    /\ wire' = [c \in Conns |-> IF c \in destroyed THEN <<>> ELSE wire[c]]
    /\ evicted' = evicted \cup destroyed
    /\ connections' = [d \in (DOMAIN connections) \ late |->
                            [connections[d] EXCEPT !.lastHeartbeat = now[d]]]
    /\ timers' = [d \in DeviceIds |->
                    IF d \in late /\ d \in screenUpdateInterval
                    THEN timers[d] - 1 ELSE timers[d]]
    /\ screenUpdateInterval' = screenUpdateInterval \ late
    /\ disconnections' = disconnections (+)
            SetToBag({Suspended(d, connections[d].socket) : d \in late})
    /\ removals' = [i \in 1..Len(removals) |->
            [removals[i] EXCEPT !.after = IF @ > SweepPeriod THEN @ - SweepPeriod ELSE 0]]
    /\ Quiet
    /\ UNCHANGED <<buffer, deviceConnection, handlers, dbDevices, dbSessions,
                   devices, tracing, stopped, bldVars, managed, parseFailures, handled, obsVars, cliVars, sends, sent, dispatched, broadcasts>>

\* ------------------------------------------------------- specifications
Records == {InfoRecord(p) : p \in Packages}
            \cup {HeartbeatRecord, ScreenRecord, GarbageRecord}

Next ==
    \/ \E c \in Conns : Connect(c)
    \/ \E c \in Conns, r \in Records : AgentSend(c, r)
    \/ \E c \in Conns : OnData(c, Len(wire[c]))
    \/ \E h \in BagToSet(handlers) : AuthGetDevices(h)
    \/ \E h \in BagToSet(handlers) : AuthCreateDevice(h)
    \/ \E h \in BagToSet(handlers) : AuthUpdateDevice(h)
    \/ \E h \in BagToSet(handlers) : AuthCreateSession(h)
    \/ \E h \in BagToSet(handlers) : AuthReturn(h)
    \/ \E c \in Conns : SocketClose(c)
    \/ \E c \in Conns : SocketError(c)
    \/ \E x \in BagToSet(disconnections) : DiscUpdateDevice(x)
    \/ \E x \in BagToSet(disconnections) : DiscGetSessions(x)
    \/ \E x \in BagToSet(disconnections) : DiscEndSession(x)
    \/ \E x \in BagToSet(disconnections) : DiscFinish(x)
    \/ HeartbeatCheck
    \/ \E d \in 1..(Len(dbDevices) + 1), t \in CommandTypes : Route(d, t)

Spec == Init /\ [][Next]_vars

\* The interval callback of startScreenCapture for an interval that is
\* running under device id d: request_screen goes to the socket bound to d
PollTimerFires(d) ==
    /\ timers[d] > 0
    /\ wrote' = IF d \in DOMAIN connections
                THEN sendMessage(connections[d].socket, "request_screen")
                ELSE <<>>
    /\ emitted' = <<>>
    /\ lastRoute' = NoRoute
    /\ UNCHANGED <<sock, wire, buffer, deviceConnection, connections,
                   screenUpdateInterval, timers, handlers, disconnections,
                   dbDevices, dbSessions, devices, removals, tracing, stopped, bldVars, managed,
                   parseFailures, handled, obsVars, cliVars, sends, sent, dispatched, evicted,
                   broadcasts>>

\* TCPServer.sendCommandToDevice called with the command object that
\* DeviceManager.sendCommand builds: {type: commandType, data, timestamp}
SendCommandToDevice(deviceId, type) ==
    /\ wrote' = sendCommandToDevice(deviceId, type).wrote
    /\ emitted' = <<>>
    /\ lastRoute' = NoRoute
    /\ UNCHANGED <<sock, wire, buffer, deviceConnection, connections,
                   screenUpdateInterval, timers, handlers, disconnections,
                   dbDevices, dbSessions, devices, removals, tracing, stopped, bldVars, managed,
                   parseFailures, handled, obsVars, cliVars, sends, sent, dispatched, evicted,
                   broadcasts>>

\* The TCPServer by itself, with no listener on its events: the class as it
\* is exported, before a DeviceManager is put on it.
InitServer == Start /\ tracing = FALSE /\ managed = FALSE

NextServer ==
    \/ \E c \in Conns : Connect(c)
    \/ \E c \in Conns, r \in Records : AgentSend(c, r)
    \/ \E c \in Conns : OnData(c, Len(wire[c]))
    \/ \E h \in BagToSet(handlers) : AuthGetDevices(h)
    \/ \E h \in BagToSet(handlers) : AuthCreateDevice(h)
    \/ \E h \in BagToSet(handlers) : AuthUpdateDevice(h)
    \/ \E h \in BagToSet(handlers) : AuthCreateSession(h)
    \/ \E h \in BagToSet(handlers) : AuthReturn(h)
    \/ \E c \in Conns : SocketClose(c)
    \/ \E c \in Conns : SocketError(c)
    \/ \E x \in BagToSet(disconnections) : DiscUpdateDevice(x)
    \/ \E x \in BagToSet(disconnections) : DiscGetSessions(x)
    \/ \E x \in BagToSet(disconnections) : DiscEndSession(x)
    \/ \E x \in BagToSet(disconnections) : DiscFinish(x)
    \/ HeartbeatCheck
    \/ \E d \in DeviceIds : PollTimerFires(d)
    \/ \E d \in DOMAIN connections, t \in CommandTypes : SendCommandToDevice(d, t)

SpecServer == InitServer /\ [][NextServer]_vars

\* ------------------------------------------------------ observer fan-out
Range(seq) == {seq[i] : i \in DOMAIN seq}

\* wss.on('connection'): the greeting is sent and the WebSocket is added
addWebSocketClient(ws) ==
    /\ readyState[ws] = "NEW"
    /\ readyState' = [readyState EXCEPT ![ws] = "OPEN"]
    /\ webSocketClients' = Append(webSocketClients, ws)
    /\ lastBroadcast' = NoBroadcast
    /\ UNCHANGED <<failed, tcpVars, cliVars>>

\* the WebSocket starts to close; its close event has not been emitted yet
WebSocketClosing(ws) ==
    /\ readyState[ws] = "OPEN"
    /\ readyState' = [readyState EXCEPT ![ws] = "CLOSING"]
    /\ lastBroadcast' = NoBroadcast
    /\ UNCHANGED <<webSocketClients, failed, tcpVars, cliVars>>

\* ws.on('close'): removeWebSocketClient
removeWebSocketClient(ws) ==
    /\ readyState[ws] \in {"OPEN", "CLOSING"}
    /\ readyState' = [readyState EXCEPT ![ws] = "CLOSED"]
    /\ webSocketClients' = SelectSeq(webSocketClients, LAMBDA o : o # ws)
    /\ lastBroadcast' = NoBroadcast
    /\ UNCHANGED <<failed, tcpVars, cliVars>>

\* a catch block that leaves the set as it is
SendCaughtKeeps(acc, ws) ==
    [acc EXCEPT !.threw = @ \cup {ws}]

\* the catch block around ws.send: the WebSocket is deleted from the set
SendCaught(acc, ws) ==
    [acc EXCEPT !.threw = @ \cup {ws}, !.deleted = @ \cup {ws}]

\* webSocketClients.forEach of broadcastToWebClients over the clients in
\* insertion order; throwing holds the WebSockets whose send throws
RECURSIVE SendEach(_, _, _)
SendEach(clients, throwing, acc) ==
    IF clients = <<>> THEN acc
    ELSE LET ws == Head(clients) IN
         IF readyState[ws] # "OPEN" THEN SendEach(Tail(clients), throwing, acc)
         ELSE LET tried == [acc EXCEPT !.attempted = Append(@, ws)] IN
              IF ws \in throwing
              THEN SendEach(Tail(clients), throwing, SendCaught(tried, ws))
              ELSE SendEach(Tail(clients), throwing,
                            [tried EXCEPT !.delivered = Append(@, ws)])

\* a forEach whose ws.send is not inside a try block: the first exception
\* leaves the loop and reaches the caller
RECURSIVE SendEachUnguarded(_, _, _)
SendEachUnguarded(clients, throwing, acc) ==
    IF clients = <<>> THEN acc
    ELSE LET ws == Head(clients) IN
         IF readyState[ws] # "OPEN" THEN SendEachUnguarded(Tail(clients), throwing, acc)
         ELSE LET tried == [acc EXCEPT !.attempted = Append(@, ws)] IN
              IF ws \in throwing
              THEN [tried EXCEPT !.threw = @ \cup {ws}, !.raised = TRUE]
              ELSE SendEachUnguarded(Tail(clients), throwing,
                                     [tried EXCEPT !.delivered = Append(@, ws)])

Subscribed(clients) == {o \in Range(clients) : readyState[o] = "OPEN"}

broadcastUnguarded(clients, throwing) ==
    SendEachUnguarded(clients, throwing,
                      [NoBroadcast EXCEPT !.open = Subscribed(clients)])

\* DeviceManager.broadcastToWebClients
broadcastToWebClients(clients, throwing) ==
    SendEach(clients, throwing, [NoBroadcast EXCEPT !.open = Subscribed(clients)])

\* one call of broadcastToWebClients, by any of its callers
BroadcastToWebClients(throwing) ==
    /\ throwing \subseteq Subscribed(webSocketClients)
    /\ LET done == broadcastToWebClients(webSocketClients, throwing) IN
       /\ webSocketClients' = SelectSeq(webSocketClients, LAMBDA o : o \notin done.deleted)
       /\ failed' = failed \cup done.threw
       /\ lastBroadcast' = done
    /\ UNCHANGED <<readyState, tcpVars, cliVars>>

\* The observer set alone: WebSockets come and go and messages are broadcast
InitBroadcast == Start /\ tracing = FALSE /\ managed = TRUE

NextBroadcast ==
    \/ \E ws \in Observers : addWebSocketClient(ws)
    \/ \E ws \in Observers : WebSocketClosing(ws)
    \/ \E ws \in Observers : removeWebSocketClient(ws)
    \/ \E throwing \in SUBSET Observers : BroadcastToWebClients(throwing)

SpecBroadcast == InitBroadcast /\ [][NextBroadcast]_vars

\* The frame reader alone: one agent, its bytes cut into data events at
\* every possible place, the histories kept.
FrameRecords == {HeartbeatRecord, QuotedGetRecord, GarbageRecord, HttpRecord}

InitFrame == Start /\ tracing = TRUE /\ managed = TRUE

NextFrame ==
    \/ Connect(1)
    \/ \E r \in FrameRecords : AgentSend(1, r)
    \/ \E k \in 1..Len(wire[1]) : OnData(1, k)

SpecFrame == InitFrame /\ [][NextFrame]_vars

\* One agent connection with the histories kept: the server as it is wired,
\* the bytes of the agent cut into data events at every possible place.
SessionRecords == Records \cup {ResponseRecord}

InitSession == Start /\ tracing = TRUE /\ managed = TRUE

NextSession ==
    \/ Connect(1)
    \/ \E r \in SessionRecords : AgentSend(1, r)
    \/ \E k \in 1..Len(wire[1]) : OnData(1, k)
    \/ \E h \in BagToSet(handlers) : AuthGetDevices(h)
    \/ \E h \in BagToSet(handlers) : AuthCreateDevice(h)
    \/ \E h \in BagToSet(handlers) : AuthUpdateDevice(h)
    \/ \E h \in BagToSet(handlers) : AuthCreateSession(h)
    \/ \E h \in BagToSet(handlers) : AuthReturn(h)
    \/ SocketClose(1)
    \/ \E x \in BagToSet(disconnections) : DiscUpdateDevice(x)
    \/ \E x \in BagToSet(disconnections) : DiscGetSessions(x)
    \/ \E x \in BagToSet(disconnections) : DiscEndSession(x)
    \/ \E x \in BagToSet(disconnections) : DiscFinish(x)
    \/ HeartbeatCheck

SpecSession == InitSession /\ [][NextSession]_vars

\* One agent connection whose heartbeat loop is running: after each sleep
\* of the loop the agent writes a heartbeat frame, as long as the server
\* has read the one before.
AgentHeartbeat(c) ==
    /\ sock[c] \in {"open", "ended"}
    /\ wire[c] = <<>>
    /\ wire' = [wire EXCEPT ![c] = HeartbeatRecord \o <<NL>>]
    /\ sent' = IF tracing THEN [sent EXCEPT ![c] = Append(@, HeartbeatRecord)] ELSE sent
    /\ Quiet
    /\ UNCHANGED <<sock, buffer, deviceConnection, connections,
                   screenUpdateInterval, timers, handlers, disconnections,
                   dbDevices, dbSessions, devices, removals, tracing, stopped, bldVars, managed,
                   parseFailures, handled, obsVars, cliVars, sends,
                   dispatched, evicted, broadcasts>>

InitLive == Start /\ tracing = FALSE /\ managed = TRUE

NextLive ==
    \/ Connect(1)
    \/ \E p \in Packages : AgentSend(1, InfoRecord(p))
    \/ AgentHeartbeat(1)
    \/ \E k \in 1..Len(wire[1]) : OnData(1, k)
    \/ \E h \in BagToSet(handlers) : AuthGetDevices(h)
    \/ \E h \in BagToSet(handlers) : AuthCreateDevice(h)
    \/ \E h \in BagToSet(handlers) : AuthUpdateDevice(h)
    \/ \E h \in BagToSet(handlers) : AuthCreateSession(h)
    \/ \E h \in BagToSet(handlers) : AuthReturn(h)
    \/ SocketClose(1)
    \/ \E x \in BagToSet(disconnections) : DiscUpdateDevice(x)
    \/ \E x \in BagToSet(disconnections) : DiscGetSessions(x)
    \/ \E x \in BagToSet(disconnections) : DiscEndSession(x)
    \/ \E x \in BagToSet(disconnections) : DiscFinish(x)
    \/ HeartbeatCheck

SpecLive == InitLive /\ [][NextLive]_vars

\* One agent over its successive connections: connect() opens a socket
\* when the one before is closed, and sendDeviceInfo writes the identity
\* frame, which a faulty or hasty agent may write again on the same socket.
AgentConnects(c) ==
    /\ \A b \in 1..(c - 1) : sock[b] = "closed"
    /\ Connect(c)

AgentIdentifies(c, p) ==
    /\ sock[c] \in {"open", "ended"}
    /\ sends < MaxInfo
    /\ sends' = sends + 1
    /\ wire' = [wire EXCEPT ![c] = @ \o InfoRecord(p) \o <<NL>>]
    /\ sent' = IF tracing THEN [sent EXCEPT ![c] = Append(@, InfoRecord(p))] ELSE sent
    /\ Quiet
    /\ UNCHANGED <<sock, buffer, deviceConnection, connections,
                   screenUpdateInterval, timers, handlers, disconnections,
                   dbDevices, dbSessions, devices, removals, tracing, stopped, bldVars, managed,
                   parseFailures, handled, obsVars, cliVars,
                   dispatched, evicted, broadcasts>>

InitIdentity == Start /\ tracing = FALSE /\ managed = TRUE

NextIdentity ==
    \/ \E c \in Conns : AgentConnects(c)
    \/ \E c \in Conns, p \in Packages : AgentIdentifies(c, p)
    \/ \E c \in Conns : OnData(c, Len(wire[c]))
    \/ \E h \in BagToSet(handlers) : AuthGetDevices(h)
    \/ \E h \in BagToSet(handlers) : AuthCreateDevice(h)
    \/ \E h \in BagToSet(handlers) : AuthUpdateDevice(h)
    \/ \E h \in BagToSet(handlers) : AuthCreateSession(h)
    \/ \E h \in BagToSet(handlers) : AuthReturn(h)
    \/ \E c \in Conns : SocketClose(c)
    \/ \E x \in BagToSet(disconnections) : DiscUpdateDevice(x)
    \/ \E x \in BagToSet(disconnections) : DiscGetSessions(x)
    \/ \E x \in BagToSet(disconnections) : DiscEndSession(x)
    \/ \E x \in BagToSet(disconnections) : DiscFinish(x)
    \/ HeartbeatCheck

SpecIdentity == InitIdentity /\ [][NextIdentity]_vars

\* The DeviceManager driven through its listeners' methods, with the device
\* data that registerDevice expects: one registerDevice per identity frame
\* of an agent, one unregisterDevice per session that ends.
RegisterDevice(d) ==
    /\ sends < MaxInfo
    /\ sends' = sends + 1
    /\ LET reg == registerDevice(d, 0) IN
       /\ devices' = reg.devices
       /\ broadcasts' = broadcasts \o reg.broadcasts
    /\ Quiet
    /\ UNCHANGED <<sock, wire, buffer, deviceConnection, connections,
                   screenUpdateInterval, timers, handlers, disconnections,
                   dbDevices, dbSessions, removals, tracing, stopped, bldVars, managed,
                   parseFailures, handled, obsVars, cliVars, sent,
                   dispatched, evicted>>

UnregisterDevice(d) ==
    /\ d \in DOMAIN devices
    /\ devices[d].isConnected
    /\ unregisterDevice(d, 0)
    /\ Quiet
    /\ UNCHANGED <<sock, wire, buffer, deviceConnection, connections,
                   screenUpdateInterval, timers, handlers, disconnections,
                   dbDevices, dbSessions, tracing, stopped, bldVars, managed,
                   parseFailures, handled, obsVars, cliVars, sends, sent,
                   dispatched, evicted>>

\* The callback of the setTimeout of unregisterDevice, when its delay is
\* over: the record under the id is deleted and the list is broadcast
RemovalFires(i) ==
    /\ i \in 1..Len(removals)
    /\ removals[i].after = 0
    /\ devices' = [d \in (DOMAIN devices) \ {removals[i].deviceId} |-> devices[d]]
    /\ broadcasts' = Append(broadcasts, Broadcast("devices_update", 0, 0))
    /\ removals' = SubSeq(removals, 1, i - 1) \o SubSeq(removals, i + 1, Len(removals))
    /\ Quiet
    /\ UNCHANGED <<sock, wire, buffer, deviceConnection, connections,
                   screenUpdateInterval, timers, handlers, disconnections,
                   dbDevices, dbSessions, tracing, stopped, bldVars, managed,
                   parseFailures, handled, obsVars, cliVars, sends, sent,
                   dispatched, evicted>>

InitManager == Start /\ tracing = FALSE /\ managed = TRUE

NextManager ==
    \/ \E d \in DeviceIds : RegisterDevice(d)
    \/ \E d \in DeviceIds : UnregisterDevice(d)
    \/ \E i \in 1..Len(removals) : RemovalFires(i)
    \/ HeartbeatCheck

SpecManager == InitManager /\ [][NextManager]_vars

\* TCPServer.stop(): the sweeper interval and the intervals that
\* screenUpdateInterval holds are cleared, the listening server is closed
\* (the sockets it has accepted stay as they are) and the registry is cleared
Stop ==
    /\ ~stopped
    /\ stopped' = TRUE
    /\ timers' = [d \in DeviceIds |->
                    IF d \in screenUpdateInterval THEN timers[d] - 1 ELSE timers[d]]
    /\ screenUpdateInterval' = {}
    /\ connections' = <<>>
    /\ Quiet
    /\ UNCHANGED <<sock, wire, buffer, deviceConnection, handlers, disconnections,
                   dbDevices, dbSessions, devices, removals, tracing, bldVars, managed,
                   parseFailures, handled, obsVars, cliVars, sends, sent,
                   dispatched, evicted, broadcasts>>

\* The TCPServer by itself, as in SpecServer, with stop() called at any time
InitStop == Start /\ tracing = FALSE /\ managed = FALSE

NextStop ==
    \/ Stop
    \/ \E c \in Conns : Connect(c)
    \/ \E c \in Conns, r \in Records : AgentSend(c, r)
    \/ \E c \in Conns : OnData(c, Len(wire[c]))
    \/ \E h \in BagToSet(handlers) : AuthGetDevices(h)
    \/ \E h \in BagToSet(handlers) : AuthCreateDevice(h)
    \/ \E h \in BagToSet(handlers) : AuthUpdateDevice(h)
    \/ \E h \in BagToSet(handlers) : AuthCreateSession(h)
    \/ \E h \in BagToSet(handlers) : AuthReturn(h)
    \/ \E c \in Conns : SocketClose(c)
    \/ \E x \in BagToSet(disconnections) : DiscUpdateDevice(x)
    \/ \E x \in BagToSet(disconnections) : DiscGetSessions(x)
    \/ \E x \in BagToSet(disconnections) : DiscEndSession(x)
    \/ \E x \in BagToSet(disconnections) : DiscFinish(x)
    \/ HeartbeatCheck
    \/ \E d \in DeviceIds : PollTimerFires(d)

SpecStop == InitStop /\ [][NextStop]_vars

\* ------------------------------------------------------------ APKBuilder
\* buildAPK for one APK configuration.  Each await of the function is a
\* step that resolves or rejects: the storage calls, the shell commands of
\* copyTemplate and compileAPK, the file writes of configureProject and
\* fs.copyFile.  cleanup catches its own errors.
ProgressEvent(stage, percent) == [stage |-> stage, progress |-> percent]

Emit(n, stage, percent) ==
    progress' = [progress EXCEPT ![n] = Append(@, ProgressEvent(stage, percent))]

At(n, pc) == build' = [build EXCEPT ![n].pc = pc]

Settled(n) == build[n].pc \in {"resolved", "rejected"}

\* POST /api/build-apk/:configId: the configuration is found and buildAPK is
\* called; it runs up to its first await
StartBuild(n) ==
    /\ build[n].pc = "none"
    /\ At(n, "setBuilding")
    /\ UNCHANGED <<buildStatus, apkPath, progress, tcpServerVars, obsVars, cliVars>>

\* a rejected await in the try block goes to the catch block, which awaits
\* the update to "failed"
Rejects(n) ==
    /\ At(n, "setFailed")
    /\ UNCHANGED <<buildStatus, apkPath, progress>>

\* await storage.updateApkConfiguration(id, {buildStatus: "building"})
BuildSetBuilding(n, ok) ==
    /\ build[n].pc = "setBuilding"
    /\ IF ok
       THEN /\ buildStatus' = "building"
            /\ build' = [build EXCEPT ![n] = [pc |-> "copyTemplate", began |-> TRUE]]
            /\ Emit(n, "prepare", 10)
            /\ UNCHANGED apkPath
       ELSE Rejects(n)
    /\ UNCHANGED <<tcpServerVars, obsVars, cliVars>>

\* await this.copyTemplate(projectDir)
BuildCopyTemplate(n, ok) ==
    /\ build[n].pc = "copyTemplate"
    /\ IF ok
       THEN /\ At(n, "configureProject")
            /\ Emit(n, "configure", 25)
            /\ UNCHANGED <<buildStatus, apkPath>>
       ELSE Rejects(n)
    /\ UNCHANGED <<tcpServerVars, obsVars, cliVars>>

\* await this.configureProject(projectDir, config)
BuildConfigure(n, ok) ==
    /\ build[n].pc = "configureProject"
    /\ IF ok
       THEN /\ At(n, "compileAPK")
            /\ Emit(n, "compile", 50)
            /\ UNCHANGED <<buildStatus, apkPath>>
       ELSE Rejects(n)
    /\ UNCHANGED <<tcpServerVars, obsVars, cliVars>>

\* await this.compileAPK(projectDir, config)
BuildCompile(n, ok) ==
    /\ build[n].pc = "compileAPK"
    /\ IF ok
       THEN /\ At(n, "copyFile")
            /\ Emit(n, "finalize", 90)
            /\ UNCHANGED <<buildStatus, apkPath>>
       ELSE Rejects(n)
    /\ UNCHANGED <<tcpServerVars, obsVars, cliVars>>

\* await fs.copyFile(apkPath, finalApkPath)
BuildCopyFile(n, ok) ==
    /\ build[n].pc = "copyFile"
    /\ IF ok
       THEN /\ At(n, "setCompleted")
            /\ UNCHANGED <<buildStatus, apkPath, progress>>
       ELSE Rejects(n)
    /\ UNCHANGED <<tcpServerVars, obsVars, cliVars>>

\* await storage.updateApkConfiguration(id, {buildStatus: "completed",
\* apkPath: finalApkPath, ...})
BuildSetCompleted(n, ok) ==
    /\ build[n].pc = "setCompleted"
    /\ IF ok
       THEN /\ buildStatus' = "completed"
            /\ apkPath' = TRUE
            /\ At(n, "cleanup")
            /\ Emit(n, "complete", 100)
       ELSE Rejects(n)
    /\ UNCHANGED <<tcpServerVars, obsVars, cliVars>>

\* await this.cleanup(projectDir), then return finalApkPath
BuildCleanup(n) ==
    /\ build[n].pc = "cleanup"
    /\ At(n, "resolved")
    /\ UNCHANGED <<buildStatus, apkPath, progress, tcpServerVars, obsVars, cliVars>>

\* the catch block: await storage.updateApkConfiguration(id, {buildStatus:
\* "failed", ...}); when it rejects, the row is left as it is
setFailed(ok) == IF ok THEN "failed" ELSE buildStatus

\* the catch block after its await: onProgress({stage: "error"}) and
\* throw error; when the await rejects, buildAPK rejects with that error
BuildSetFailed(n, ok) ==
    /\ build[n].pc = "setFailed"
    /\ buildStatus' = setFailed(ok)
    /\ At(n, "rejected")
    /\ IF ok THEN Emit(n, "error", 0) ELSE UNCHANGED progress
    /\ UNCHANGED <<apkPath, tcpServerVars, obsVars, cliVars>>

InitBuild == Start /\ tracing = FALSE /\ managed = TRUE

NextBuild ==
    \/ \E n \in Builds : StartBuild(n)
    \/ \E n \in Builds, ok \in BOOLEAN : BuildSetBuilding(n, ok)
    \/ \E n \in Builds, ok \in BOOLEAN : BuildCopyTemplate(n, ok)
    \/ \E n \in Builds, ok \in BOOLEAN : BuildConfigure(n, ok)
    \/ \E n \in Builds, ok \in BOOLEAN : BuildCompile(n, ok)
    \/ \E n \in Builds, ok \in BOOLEAN : BuildCopyFile(n, ok)
    \/ \E n \in Builds, ok \in BOOLEAN : BuildSetCompleted(n, ok)
    \/ \E n \in Builds : BuildCleanup(n)
    \/ \E n \in Builds, ok \in BOOLEAN : BuildSetFailed(n, ok)

SpecBuild == InitBuild /\ [][NextBuild]_vars

\* -------------------------------------------------------- Android client
\* TCPClient.java holds two versions of the class, the first with a
\* heartbeat loop (variant 1), the second with scheduleReconnect (variant 2).
\* Each runs its tasks on one single-thread executor: the task at the head of
\* the queue is the one that runs, the others wait for it to return.
MaxAttempts == 3

\* socket.close(), writer.close(), reader.close()
Closed(l) == IF l = "none" THEN "none" ELSE "closed"

\* writer.write and flush: the first write to a socket that the peer has
\* closed is accepted and answered with a reset, later ones throw
WriteThrows(l) == l \notin {"up", "eof"}

Written(l) == IF l = "eof" THEN "reset" ELSE l

\* scheduleReconnect: one delayed runnable, unless shouldReconnect is false
scheduleReconnect(should) == IF should THEN mainHandler + 1 ELSE mainHandler

\* connect() called by the application for the first time
AppConnect(v) ==
    /\ variant = 0
    /\ variant' = v
    /\ shouldReconnect' = TRUE
    /\ executor' = Append(executor, "connect")
    /\ UNCHANGED <<clientIsConnected, mainHandler, link, established, infoSent,
                   lost, explicit, tcpVars, obsVars>>

\* The connection task: new Socket(host, port) succeeds (ok) or throws.
\* Variant 1 writes device_info itself and queues the heartbeat loop and the
\* read loop; on an exception it sleeps and calls connect() again.  Variant 2
\* queues the write of device_info and the read loop; on an exception it
\* calls handleDisconnection and scheduleReconnect.
RunConnect(ok) ==
    /\ executor # <<>>
    /\ Head(executor) = "connect"
    /\ ok => established < MaxAttempts
    /\ IF ok
       THEN /\ established' = established + 1
            /\ link' = "up"
            /\ clientIsConnected' = TRUE
            /\ infoSent' = IF variant = 1 THEN established + 1 ELSE infoSent
            /\ executor' = Tail(executor) \o
                    (IF variant = 1 THEN <<"heartbeat", "listen">>
                     ELSE <<"write_info", "listen">>)
            /\ UNCHANGED <<shouldReconnect, mainHandler>>
       ELSE /\ clientIsConnected' = FALSE
            /\ link' = IF variant = 2 THEN Closed(link) ELSE link
            /\ executor' = IF variant = 1 /\ shouldReconnect
                           THEN Append(Tail(executor), "connect")
                           ELSE Tail(executor)
            /\ mainHandler' = IF variant = 2 THEN scheduleReconnect(shouldReconnect)
                              ELSE mainHandler
            /\ UNCHANGED <<established, infoSent, shouldReconnect>>
    /\ UNCHANGED <<variant, lost, explicit, tcpVars, obsVars>>

\* One turn of the loop of startHeartbeat (variant 1): the loop ends when
\* isConnected is false; sendMessage catches the IOException of a failed
\* write and calls disconnect()
RunHeartbeat ==
    /\ executor # <<>>
    /\ Head(executor) = "heartbeat"
    /\ IF ~clientIsConnected
       THEN /\ executor' = Tail(executor)
            /\ UNCHANGED <<clientIsConnected, shouldReconnect, link>>
       ELSE IF WriteThrows(link)
       THEN /\ shouldReconnect' = FALSE
            /\ clientIsConnected' = FALSE
            /\ link' = Closed(link)
            /\ UNCHANGED executor
       ELSE /\ link' = Written(link)
            /\ UNCHANGED <<clientIsConnected, shouldReconnect, executor>>
    /\ UNCHANGED <<variant, mainHandler, established, infoSent, lost, explicit,
                   tcpVars, obsVars>>

\* The read loop of startListening comes to its end: isConnected is false,
\* or readLine returns null (the peer closed) or throws.  Variant 1 calls
\* disconnect() in its finally block.  Variant 2 calls handleDisconnection
\* and scheduleReconnect in its catch block when isConnected is still true,
\* and does nothing when readLine returns null.
RunListen ==
    /\ executor # <<>>
    /\ Head(executor) = "listen"
    /\ ~clientIsConnected \/ link # "up"
    /\ executor' = Tail(executor)
    /\ IF variant = 1
       THEN /\ shouldReconnect' = FALSE
            /\ clientIsConnected' = FALSE
            /\ link' = Closed(link)
            /\ UNCHANGED mainHandler
       ELSE IF clientIsConnected /\ link \in {"reset", "closed"}
       THEN /\ clientIsConnected' = FALSE
            /\ link' = Closed(link)
            /\ mainHandler' = scheduleReconnect(shouldReconnect)
            /\ UNCHANGED shouldReconnect
       ELSE UNCHANGED <<shouldReconnect, clientIsConnected, link, mainHandler>>
    /\ UNCHANGED <<variant, established, infoSent, lost, explicit, tcpVars, obsVars>>

\* The task queued by sendMessage (variant 2): the write, and on an
\* IOException handleDisconnection and scheduleReconnect
RunWrite ==
    /\ executor # <<>>
    /\ Head(executor) \in {"write_info", "write"}
    /\ executor' = Tail(executor)
    /\ IF WriteThrows(link)
       THEN /\ clientIsConnected' = FALSE
            /\ link' = Closed(link)
            /\ mainHandler' = scheduleReconnect(shouldReconnect)
            /\ UNCHANGED infoSent
       ELSE /\ link' = Written(link)
            /\ infoSent' = IF Head(executor) = "write_info" /\ link = "up"
                           THEN established ELSE infoSent
            /\ UNCHANGED <<clientIsConnected, mainHandler>>
    /\ UNCHANGED <<variant, shouldReconnect, established, lost, explicit,
                   tcpVars, obsVars>>

\* The runnable that scheduleReconnect posted runs after its delay: connect()
\* when shouldReconnect is true and isConnected is false
RunDelayed ==
    /\ mainHandler > 0
    /\ mainHandler' = mainHandler - 1
    /\ executor' = IF shouldReconnect /\ ~clientIsConnected
                   THEN Append(executor, "connect") ELSE executor
    /\ UNCHANGED <<variant, clientIsConnected, shouldReconnect, link, established,
                   infoSent, lost, explicit, tcpVars, obsVars>>

\* the server closes the connection: readLine will return null
ServerCloses ==
    /\ link = "up"
    /\ established < MaxAttempts
    /\ link' = "eof"
    /\ lost' = established
    /\ UNCHANGED <<variant, clientIsConnected, shouldReconnect, executor, mainHandler,
                   established, infoSent, explicit, tcpVars, obsVars>>

\* the connection fails: reads and writes will throw an IOException
LinkFails ==
    /\ link = "up"
    /\ established < MaxAttempts
    /\ link' = "reset"
    /\ lost' = established
    /\ UNCHANGED <<variant, clientIsConnected, shouldReconnect, executor, mainHandler,
                   established, infoSent, explicit, tcpVars, obsVars>>

\* disconnect() called by the application
AppDisconnect ==
    /\ variant # 0
    /\ ~explicit
    /\ explicit' = TRUE
    /\ shouldReconnect' = FALSE
    /\ clientIsConnected' = FALSE
    /\ link' = Closed(link)
    /\ UNCHANGED <<variant, executor, mainHandler, established, infoSent, lost,
                   tcpVars, obsVars>>

\* sendScreenData(byte[]) called by the screen capture service (variant 2):
\* sendMessage queues a write when isConnected is true and there is a writer
AppSendScreenData ==
    /\ variant = 2
    /\ clientIsConnected
    /\ link # "none"
    /\ Len(executor) <= MaxAttempts
    /\ executor' = Append(executor, "write")
    /\ UNCHANGED <<variant, clientIsConnected, shouldReconnect, mainHandler, link,
                   established, infoSent, lost, explicit, tcpVars, obsVars>>

InitClient == Start /\ tracing = FALSE /\ managed = TRUE

\* the steps the client takes by itself
ClientTask ==
    \/ RunConnect(TRUE)
    \/ RunConnect(FALSE)
    \/ RunHeartbeat
    \/ RunListen
    \/ RunWrite
    \/ RunDelayed

NextClient ==
    \/ \E v \in {1, 2} : AppConnect(v)
    \/ \E ok \in BOOLEAN : RunConnect(ok)
    \/ RunHeartbeat
    \/ RunListen
    \/ RunWrite
    \/ RunDelayed
    \/ ServerCloses
    \/ LinkFails
    \/ AppDisconnect
    \/ AppSendScreenData

\* The executor thread and the main looper run what is queued on them, and
\* the server can be reached again and again.
SpecClient ==
    /\ InitClient
    /\ [][NextClient]_vars
    /\ WF_vars(ClientTask)
    /\ SF_vars(RunConnect(TRUE))

\* ---------------------------------------------------------------- claims
Count(seq, Test(_)) == Len(SelectSeq(seq, Test))

InFlight(c) == \E x \in BagToSet(disconnections) : x.socket = c

\* C1: when a connection authenticates under an id that another open
\* connection holds, the older socket is closed, so no two open sockets are
\* authenticated under the same device id.
C1_SupersededSocketClosed ==
    \A c1, c2 \in Conns :
        (c1 # c2 /\ deviceConnection[c1] # 0
                 /\ deviceConnection[c1] = deviceConnection[c2])
            => ~(sock[c1] = "open" /\ sock[c2] = "open")

\* C2: the close, error or eviction of a socket whose device id is bound to
\* another socket leaves the binding of that id as it was.
C2_StaleUnbindIsNoOp ==
    [][\A c \in Conns :
        LET d == deviceConnection[c] IN
        (/\ sock'[c] # sock[c]
         /\ sock'[c] \in {"closing", "closed"}
         /\ d \in DOMAIN connections
         /\ connections[d].socket # c)
            => (d \in DOMAIN connections' /\ connections'[d].socket = connections[d].socket)
      ]_vars

\* C3: a session evicted by the sweeper gets exactly one device_disconnected
\* broadcast, once its socket has closed and its disconnections have finished.
C3_OneDisconnectBroadcast ==
    \A c \in evicted :
        (sock[c] = "closed" /\ ~InFlight(c))
            => Count(broadcasts,
                     LAMBDA b : b.type = "device_disconnected" /\ b.socket = c) = 1

\* C4: once the sweeper has evicted a silent session and its disconnection
\* has run to the end, the binding of that session is gone and the Device
\* Record of its id is marked isConnected = false.
C4_EvictedBecomesUnreachable ==
    \A c \in evicted :
        (sock[c] = "closed" /\ ~InFlight(c))
            => LET d == deviceConnection[c] IN
               /\ ~(d \in DOMAIN connections /\ connections[d].socket = c)
               /\ d \in DOMAIN devices
               /\ ~devices[d].isConnected

\* C5: a command routed to a device id with no bound session returns false
\* and writes nothing to any socket.
C5_UnboundRouteNotConnected ==
    (lastRoute.deviceId # 0 /\ ~lastRoute.bound)
        => (~lastRoute.result /\ wrote = <<>>)

C5_Witness ==
    /\ lastRoute.deviceId # 0
    /\ ~lastRoute.bound
    /\ DOMAIN connections # {}
    /\ \E c \in Conns : deviceConnection[c] = lastRoute.deviceId

\* C6: a command routed to a device id with a bound session returns true and
\* writes exactly one frame, to the socket of that session.
C6_BoundRouteDispatched ==
    (lastRoute.deviceId # 0 /\ lastRoute.bound)
        => /\ lastRoute.result
           /\ Len(wrote) = 1
           /\ wrote[1].socket = connections[lastRoute.deviceId].socket

\* C7: when an authentication has succeeded the connection is bound under
\* its device id, the device manager holds a reachable Device Record for the
\* id, and a device_connected message has been broadcast for it.
C7_AuthenticatedIsRegistered ==
    \A i \in 1..Len(emitted) :
        emitted[i].type = "device_connected"
            => LET d == emitted[i].deviceId IN
               /\ d \in DOMAIN connections
               /\ d \in DOMAIN devices
               /\ devices[d].isConnected
               /\ \E j \in 1..Len(broadcasts) :
                    broadcasts[j].type = "device_connected" /\ broadcasts[j].deviceId = d

\* C8: a device_connected notification is issued only while the registry
\* holds a binding for its id, a device_disconnected notification only while
\* it holds none.
C8_NotificationMatchesRegistry ==
    \A i \in 1..Len(emitted) :
        /\ emitted[i].type = "device_connected"
                => emitted[i].deviceId \in DOMAIN connections
        /\ emitted[i].type = "device_disconnected"
                => emitted[i].deviceId \notin DOMAIN connections

\* C9: when every record sent is well-formed JSON and all bytes have been
\* read, the records dispatched are the records sent, in order, however the
\* bytes were cut into data events.
C9_ChunkingInvariance ==
    \A c \in Conns :
        (wire[c] = <<>> /\ \A i \in 1..Len(sent[c]) : JsonParses(sent[c][i]))
            => dispatched[c] = sent[c]

\* C10: on a connection that is still open, when all bytes have been read,
\* every well-formed record sent has been dispatched: a record that fails to
\* parse costs that record alone.
C10_OnlyBadRecordLost ==
    \A c \in Conns :
        (wire[c] = <<>> /\ sock[c] = "open")
            => dispatched[c] = SelectSeq(sent[c], JsonParses)

\* C11: a connection on which JSON parsing has failed more often than a small
\* burst threshold is closed by the server; the threshold is taken as large
\* as the records of a behaviour allow.
C11_ParseFailureBurstCloses ==
    \A c \in Conns : parseFailures[c] >= MaxSend => sock[c] # "open"

\* C12: when all bytes have been read, the connection has been rejected as
\* HTTP exactly when one of the records sent looks like an HTTP request
\* line: such a record is rejected wherever it sits in the byte stream, and
\* no other record is rejected because of the place of a chunk boundary.
C12_HttpRecordRejected ==
    \A c \in Conns :
        wire[c] = <<>> =>
            (sock[c] = "ended" <=> \E i \in 1..Len(sent[c]) : IsHttp(sent[c][i]))

\* C13: an unauthenticated connection whose non-identity frames have reached
\* a bounded number is closed by the server; the bound is taken as large as
\* the records of a behaviour allow.
C13_PreAuthFrameLimit ==
    \A c \in Conns :
        (/\ deviceConnection[c] = 0
         /\ ~\E h \in BagToSet(handlers) : h.socket = c
         /\ Count(dispatched[c], LAMBDA t : MessageType(t) # "device_info") >= MaxSend)
            => sock[c] # "open"

\* C14: the poll timers running under a device id are never more than the
\* sessions of that id that are still active: a timer created for a session
\* does not outlive it.
C14_PollTimerCancelled ==
    \A d \in DeviceIds :
        timers[d] <= Cardinality({c \in Conns : /\ deviceConnection[c] = d
                                                /\ sock[c] \in {"open", "ended"}})

\* C15: in a quiescent state, with no handler and no disconnection suspended
\* at an await, the Device Record of an id is marked isConnected exactly
\* when a session is bound to the id in the TCP registry.
C15_ReachableIffBound ==
    (handlers = EmptyBag /\ disconnections = EmptyBag)
        => \A d \in DeviceIds :
                (d \in DOMAIN devices /\ devices[d].isConnected)
                    <=> d \in DOMAIN connections

\* C16: when the disconnection of a session whose socket closed or failed
\* finishes, the binding does not point at that socket, the Device Record of
\* the id is held and marked isConnected = false, the observers have been
\* given a device_disconnected message, and the socket is released.
C16_ClosedSessionReleased ==
    [][\A x \in BagToSet(disconnections) :
        DiscFinish(x) =>
            /\ ~(x.deviceId \in DOMAIN connections'
                    /\ connections'[x.deviceId].socket = x.socket)
            /\ x.deviceId \in DOMAIN devices'
            /\ ~devices'[x.deviceId].isConnected
            /\ Len(broadcasts') > Len(broadcasts)
            /\ broadcasts'[Len(broadcasts) + 1].type = "device_disconnected"
            /\ sock'[x.socket] \in {"closing", "closed"}
      ]_vars

\* C19: every frame the server writes to an agent socket has one of the
\* types command_response, request_screen and error; an operator command is
\* written as a command_response frame. The HTTP answer to a rejected
\* request is no frame and is left out.
C19_OutboundFrameTypes ==
    \A i \in 1..Len(wrote) :
        wrote[i].type # "http_400" => wrote[i].type \in OutboundTypes

\* C17: a WebSocket whose send has thrown during a broadcast is no longer in
\* the observer set, no later broadcast calls its send, and no broadcast
\* raises an error.
C17_FailedObserverRemoved ==
    /\ ~lastBroadcast.raised
    /\ \A o \in failed :
            /\ o \notin Range(webSocketClients)
            /\ o \in Range(lastBroadcast.attempted) => o \in lastBroadcast.threw

C17_Witness ==
    /\ \E o \in failed : readyState[o] = "OPEN"
    /\ lastBroadcast.threw = {}
    /\ lastBroadcast.delivered # <<>>

\* C18: within one broadcast no failure reaches the caller, and every
\* subscribed WebSocket that is open and whose send does not throw is
\* written, whether it comes before or after one whose send throws.
C18_ObserverIsolation ==
    /\ ~lastBroadcast.raised
    /\ (lastBroadcast.open \ lastBroadcast.threw) \subseteq Range(lastBroadcast.delivered)

C18_Witness ==
    \E i, j \in DOMAIN lastBroadcast.attempted :
        /\ i < j
        /\ lastBroadcast.attempted[i] \in lastBroadcast.threw
        /\ lastBroadcast.attempted[j] \in Range(lastBroadcast.delivered)

\* what the server holds for device id B is the same after the step
Untouched(B) ==
    /\ (B \in DOMAIN connections') = (B \in DOMAIN connections)
    /\ B \in DOMAIN connections => connections'[B] = connections[B]
    /\ timers'[B] = timers[B]
    /\ (B \in screenUpdateInterval') = (B \in screenUpdateInterval)
    /\ (B \in DOMAIN devices') = (B \in DOMAIN devices)
    /\ B \in DOMAIN devices => devices'[B] = devices[B]
    /\ {r \in Range(dbDevices') : r.id = B} = {r \in Range(dbDevices) : r.id = B}

\* One step in which the faults of one connection leave the other devices alone
FaultsContained ==
    /\ \A c \in Conns : \A B \in DeviceIds \ {deviceConnection[c]} :
            (\/ SocketClose(c)
             \/ SocketError(c)
             \/ (OnData(c, Len(wire[c])) /\ wrote' = sendMessage(c, "error")))
                => Untouched(B)
    /\ \A x \in BagToSet(disconnections) : \A B \in DeviceIds \ {x.deviceId} :
            (DiscUpdateDevice(x) \/ DiscGetSessions(x) \/ DiscEndSession(x) \/ DiscFinish(x))
                => Untouched(B)
    /\ HeartbeatCheck =>
            \A B \in DOMAIN connections :
                (/\ connections[B].lastHeartbeat + SweepPeriod <= HeartbeatTimeout
                 /\ \A A \in DOMAIN connections :
                        connections[A].lastHeartbeat + SweepPeriod > HeartbeatTimeout
                            => connections[A].socket # connections[B].socket)
                    => /\ B \in DOMAIN connections'
                       /\ connections'[B].socket = connections[B].socket
                       /\ connections'[B].lastHeartbeat
                            = connections[B].lastHeartbeat + SweepPeriod
                       /\ sock'[connections[B].socket] = sock[connections[B].socket]
                       /\ timers'[B] = timers[B]

C21_ClientReconnects ==
    \A n \in 1..MaxAttempts :
        (lost = n /\ ~explicit) ~> (infoSent > n \/ explicit)

\* C22: once a connection is bound to a device id the id stays: no step
\* changes the id of a bound connection, and no authentication returns on a
\* connection that is bound already, so no connection is registered twice.
C22_BoundIdNeverChanges ==
    [][/\ \A c \in Conns :
            deviceConnection[c] # 0 => deviceConnection'[c] = deviceConnection[c]
       /\ \A h \in BagToSet(handlers) :
            AuthReturn(h) => deviceConnection[h.socket] = 0
      ]_vars

\* the records of connection c that the step has parsed
Parsed(c) == SubSeq(dispatched'[c], Len(dispatched[c]) + 1, Len(dispatched'[c]))

\* C23: a data event on a connection that has not authenticated leaves the
\* registry bindings, the Device Records, the storage rows, the timers and
\* the broadcasts as they were and emits no event, whatever non-identity
\* frames it carries.
C23_PreAuthFrameIgnored ==
    [][\A c \in Conns : \A k \in 1..Len(wire[c]) :
        (OnData(c, k) /\ deviceConnection[c] = 0)
            => /\ UNCHANGED <<connections, deviceConnection, devices, dbDevices,
                             dbSessions, timers, screenUpdateInterval, broadcasts,
                             removals>>
               /\ emitted' = <<>>
      ]_vars

C23_Witness ==
    /\ deviceConnection[1] = 0
    /\ handlers = EmptyBag
    /\ sock[1] = "open"
    /\ handled[1] = <<>>
    /\ \E i \in 1..Len(dispatched[1]) :
            MessageType(dispatched[1][i]) \in {"heartbeat", "screen_data", "command_response"}

\* C24: a step in which an authenticated connection has heartbeat frames
\* parsed, and no other frame, sets the lastHeartbeat of its own binding and
\* leaves every other binding, the Device Records, the storage rows and the
\* timers as they were; no event is emitted and nothing is broadcast.
C24_HeartbeatOnlyRefreshes ==
    [][\A c \in Conns :
        (/\ deviceConnection[c] # 0
         /\ Parsed(c) # <<>>
         /\ \A i \in DOMAIN Parsed(c) : MessageType(Parsed(c)[i]) = "heartbeat")
            => /\ DOMAIN connections' = DOMAIN connections
               /\ \A d \in DOMAIN connections :
                    /\ connections'[d].socket = connections[d].socket
                    /\ connections'[d].lastHeartbeat =
                            IF d = deviceConnection[c] /\ connections[d].socket = c
                            THEN 0 ELSE connections[d].lastHeartbeat
               /\ UNCHANGED <<deviceConnection, devices, dbDevices, dbSessions, timers,
                             screenUpdateInterval, broadcasts, removals, sock>>
               /\ emitted' = <<>>
      ]_vars

C24_Witness ==
    /\ deviceConnection[1] # 0
    /\ deviceConnection[1] \in DOMAIN connections
    /\ connections[deviceConnection[1]].lastHeartbeat = 0
    /\ handled[1] = <<HeartbeatRecord>>

\* C25: when a telemetry frame (screen_data or command_response) has been
\* handled on an Active session, the lastHeartbeat of the session is fresh
\* and the update has been given to the observers as a broadcast for the
\* device.
C25_TelemetryRepublished ==
    \A i \in 1..Len(emitted) :
        emitted[i].type \in {"screen_data", "command_response"}
            => LET d == emitted[i].deviceId IN
               /\ d \in DOMAIN connections => connections[d].lastHeartbeat = 0
               /\ \E j \in 1..Len(broadcasts) :
                    broadcasts[j].type = "screen_update" /\ broadcasts[j].deviceId = d

\* C26 as stated: every step that parses a frame other than an identity
\* frame on a connection leaves a binding of that connection whose
\* lastHeartbeat is the time of the step.
C26_EveryParsedFrameRefreshes ==
    [][\A c \in Conns :
        (\E i \in DOMAIN Parsed(c) : MessageType(Parsed(c)[i]) # "device_info")
            => \E d \in DOMAIN connections' :
                    connections'[d].socket = c /\ connections'[d].lastHeartbeat = 0
      ]_vars

\* C26: every step that parses a frame, of any type, on a connection that is
\* authenticated and bound sets the lastHeartbeat of its binding to the time
\* of the step.
C26_ParsedFrameRefreshesActive ==
    [][\A c \in Conns :
        (/\ Parsed(c) # <<>>
         /\ deviceConnection[c] # 0
         /\ deviceConnection[c] \in DOMAIN connections
         /\ connections[deviceConnection[c]].socket = c)
            => /\ deviceConnection[c] \in DOMAIN connections'
               /\ connections'[deviceConnection[c]].socket = c
               /\ connections'[deviceConnection[c]].lastHeartbeat = 0
      ]_vars

C26_Witness ==
    /\ deviceConnection[1] # 0
    /\ deviceConnection[1] \in DOMAIN connections
    /\ connections[deviceConnection[1]].lastHeartbeat = 0
    /\ handled[1] # <<>>
    /\ handled[1] = SubSeq(dispatched[1], 2, Len(dispatched[1]))
    /\ MessageType(handled[1][1]) \in {"screen_data", "command_response", "device_info"}

\* C27: the liveness timeout is greater than the heartbeat interval of the
\* agent, and the sweeper destroys the socket of a bound session only when
\* the DeviceConnection that the frames of that socket refresh has been
\* silent for longer than the timeout; a session that is refreshed every
\* heartbeat interval is therefore never evicted.
C27_HeartbeatingNeverEvicted ==
    [][/\ HeartbeatTimeout > HeartbeatInterval
       /\ \A c \in evicted' \ evicted :
            LET id == deviceConnection[c] IN
            (id \in DOMAIN connections /\ connections[id].socket = c)
                => connections[id].lastHeartbeat + SweepPeriod > HeartbeatTimeout]_vars

\* the bytes that the writes of one step put on socket c, in their order
RECURSIVE StreamOf(_, _)
StreamOf(ws, c) ==
    IF ws = <<>> THEN <<>>
    ELSE (IF Head(ws).socket = c /\ Head(ws).type # "http_400"
          THEN Head(ws).bytes ELSE <<>>) \o StreamOf(Tail(ws), c)

FramesTo(ws, c) ==
    Len(SelectSeq(ws, LAMBDA w : w.socket = c /\ w.type # "http_400"))

\* C28: the frames written to one socket never interleave: whatever the
\* caller (poll timer, command, reply or error reply), each frame is one
\* write of one JSON text and one newline, so that the bytes put on a socket
\* split at the newlines into as many JSON texts as frames were written,
\* with nothing left over.
C28_WholeFramesOnly ==
    \A c \in Conns :
        LET lines == Split(StreamOf(wrote, c)) IN
        /\ Len(lines) = FramesTo(wrote, c) + 1
        /\ lines[Len(lines)] = <<>>
        /\ \A i \in 1..(Len(lines) - 1) : JsonParses(lines[i])

\* two frames from two callers are written to one socket in one step,
\* and a poll timer is running for a connection
C28_Witness ==
    /\ Len(wrote) = 2
    /\ wrote[1].socket = wrote[2].socket
    /\ wrote[1].type = "command_response"
    /\ wrote[2].type = "error"
    /\ \E d \in DOMAIN connections : timers[d] > 0

\* the application identity stored in the row of device d
PackageOfDevice(d) ==
    (CHOOSE r \in Range(dbDevices) : r.id = d).packageName

\* C29: an agent that was bound on a connection, disconnected, and
\* reconnects with the same packageName after the disconnection has been
\* worked off (no binding of the former socket is left, nothing is awaited)
\* is looked up under the device id of its former connection.
C29_ReconnectKeepsId ==
    [][\A h \in BagToSet(handlers) :
        LET b == h.socket - 1 IN
        (/\ AuthGetDevices(h)
         /\ b \in Conns
         /\ sock[b] = "closed"
         /\ deviceConnection[b] # 0
         /\ PackageOfDevice(deviceConnection[b]) = h.packageName
         /\ \A d \in DOMAIN connections : connections[d].socket # b
         /\ disconnections = EmptyBag
         /\ handlers = SetToBag({h}))
            => FindPackage(dbDevices, h.packageName) = deviceConnection[b]]_vars

\* C30: the record of a device that is registered as connected is never
\* deleted from the registry; the delayed removal that an earlier
\* unregisterDevice has scheduled spares a device that has registered again.
C30_RemovalSparesReregistered ==
    [][\A d \in DOMAIN devices :
            devices[d].isConnected => d \in DOMAIN devices']_vars

\* C31: no device id has more than one screen-poll interval running; a
\* second authentication for an id that has a timer does not leave two.
C31_OnePollTimerPerDevice ==
    \A d \in DeviceIds : timers[d] <= 1

\* C32: when a connection has been authenticated and everything the agent
\* sent has been read, every well-formed frame that the agent sent after
\* its identity frame has been given to handleMessage, in the order sent,
\* whether it arrived with the identity frame or while the authentication
\* was awaiting storage.
C32_NoFrameLostDuringAuth ==
    \A c \in Conns :
        (/\ sock[c] = "open"
         /\ deviceConnection[c] # 0
         /\ handlers = EmptyBag
         /\ wire[c] = <<>>
         /\ buffer[c] = <<>>
         /\ sent[c] # <<>>
         /\ MessageType(sent[c][1]) = "device_info"
         /\ \A i \in 2..Len(sent[c]) :
                /\ JsonParses(sent[c][i])
                /\ MessageType(sent[c][i]) # "device_info")
            => handled[c] = Tail(sent[c])

\* C33: no two persisted device rows have the same packageName, whatever
\* authentications have run and however they overlapped.
C33_OneRowPerPackage ==
    \A i, j \in 1..Len(dbDevices) :
        dbDevices[i].packageName = dbDevices[j].packageName => i = j

\* C34: when no authentication and no disconnection is awaiting storage, a
\* device id that has no binding has no active session row, and a device id
\* that has a binding has exactly one.
C34_ActiveRowsFollowBinding ==
    (handlers = EmptyBag /\ disconnections = EmptyBag) =>
        \A d \in DeviceIds :
            Len(ActiveSessions(dbSessions, d)) =
                IF d \in DOMAIN connections THEN 1 ELSE 0

\* the DeviceConnection that the frames of socket c refresh is in the registry
OwnBinding(c) ==
    /\ deviceConnection[c] \in DOMAIN connections
    /\ connections[deviceConnection[c]].socket = c

\* time since the last processed frame of socket c, at the sweep that ends
\* the current period
SilentFor(c) == connections[deviceConnection[c]].lastHeartbeat + SweepPeriod

\* C35: the sweeper evicts a bound session at the first sweep at which its
\* last processed frame is more than 30 s old: never when that frame is
\* 30 s old or less, and never later than 30 s plus one sweep period.
C35_EvictionWindow ==
    [][HeartbeatCheck =>
        \A c \in Conns :
            OwnBinding(c) =>
                /\ (c \in evicted' \ evicted) => SilentFor(c) > HeartbeatTimeout
                /\ SilentFor(c) > HeartbeatTimeout => c \in evicted'
                /\ SilentFor(c) <= HeartbeatTimeout + SweepPeriod]_vars

\* C36: a command for device id d is written to the socket that the
\* registry holds for d and to no other; that socket is not disconnected
\* and is not the socket of a binding of any other device id.
C36_CommandReachesBoundSocketOnly ==
    [][\A d \in DOMAIN connections, t \in CommandTypes :
        SendCommandToDevice(d, t) =>
            \A i \in 1..Len(wrote') :
                LET c == wrote'[i].socket IN
                /\ c = connections[d].socket
                /\ sock[c] \in {"open", "ended"}
                /\ \A e \in DOMAIN connections : connections[e].socket = c => e = d]_vars

\* C37: once stop() has returned no interval of startScreenCapture is
\* running, the registry is empty, and no step writes a frame to a socket.
C37_StoppedServerIsSilent ==
    stopped =>
        /\ \A d \in DeviceIds : timers[d] = 0
        /\ connections = <<>>
        /\ wrote = <<>>

\* the last event that invocation n gave to onProgress
LastProgress(n) == progress[n][Len(progress[n])]

\* C38: an invocation of buildAPK that has set the status to "building" and
\* has settled has given a last progress event: complete with progress 100
\* and apkPath set when it returned, error when it threw; and when every
\* invocation that was started has settled the status is "completed" or
\* "failed", not "building".
C38_BuildEndsCompletedOrFailed ==
    /\ \A n \in Builds :
        (build[n].began /\ Settled(n)) =>
            IF build[n].pc = "resolved"
            THEN /\ apkPath
                 /\ LastProgress(n) = ProgressEvent("complete", 100)
            ELSE LastProgress(n).stage = "error"
    /\ ((\E n \in Builds : build[n].began)
            /\ \A n \in Builds : build[n].pc = "none" \/ Settled(n))
        => buildStatus \in {"completed", "failed"}

====
